---- MODULE Spec2Model ----
(***************************************************************************)
(* Subtitle pipeline of tauri-fastapi-react-app (python-script):            *)
(*   client/subtitle_client.py   chunk_audio                                *)
(*   api/process_transcription.py create_transcription, process_transcription *)
(*   api/models.py               Timestamp, SubtitleEntry, Transcription    *)
(*                                                                         *)
(* File names are sequences of character codes, so that sorted() on paths  *)
(* and int(stem.split("_")[-1]) are computed as Python computes them.      *)
(***************************************************************************)
EXTENDS Integers, Sequences, FiniteSets, TLC

VARIABLES
    \* chunk_audio (subtitle_client.py)
    audio_len,          \* len(audio), in ms
    max_duration_ms,    \* parameter max_duration_ms
    silence_midpoints,  \* the midpoints of the detected silences
    start,              \* loop cursor
    idx,                \* loop counter
    chunks,             \* exported chunks, in emission order
    chunk_pc            \* "idle" | "loop" | "returned"

chunk_vars == <<audio_len, max_duration_ms, silence_midpoints, start, idx, chunks, chunk_pc>>

VARIABLES
    \* create_transcription / process_transcription (process_transcription.py)
    chunks_dir,         \* the uploaded chunk files: [name, from, to]
    whisper_dir,        \* the transcripts written so far: [name, content]
    wav_files,          \* create_transcription: sorted(input_directory.iterdir())
    srt_files,          \* process_transcription: srt_files
    ct_pos,             \* create_transcription: files of sorted(iterdir()) already visited
    pt_pos,             \* process_transcription: files of srt_files already merged
    combined,           \* the accumulated Transcription
    job_pc              \* "idle" | "uploaded" | "transcribing" | "merging" | "merged"

merge_vars == <<chunks_dir, whisper_dir, wav_files, srt_files, ct_pos, pt_pos, combined, job_pc>>

VARIABLES
    \* Transcription.translate_subtitles (models.py)
    subtitles,          \* self.subtitles
    batch_size,         \* parameter batch_size
    overlap,            \* parameter overlap
    tr_i,               \* loop variable i of range(0, len(self.subtitles), batch_size)
    requests,           \* the prompts handed to the translator, one per call
    translations,       \* response.output_parsed.translations, for a single run of the assignment loop
    tr_pc               \* "idle" | "loop" | "returned"

translate_vars == <<subtitles, batch_size, overlap, tr_i, requests, translations, tr_pc>>

VARIABLES
    \* the /transcribe handler (main.py)
    h_pc,               \* "off" | "try" | "except" | "finally" | "done"
    response            \* what the caller receives: [status |-> 0] while there is none

handler_vars == <<h_pc, response>>

VARIABLES
    \* concurrent client transcribe() calls and the requests they post
    c_pc,               \* per call: "off" | "start" | "try" | "converted" | "chunked" | "posted" | "finally" | "done"
    c_stem,             \* per call: video_path.stem
    c_result,           \* per call: "none" | "returned" | "raised"
    temp_exists,        \* the stems s whose .subtitle_temp_{s} exists
    temp_files,         \* the files under those directories: [dir, name, by]
    s_pc,               \* per request: position of its /transcribe handler
    s_job,              \* per request: job_id, 0 before uuid4() ran
    s_status,           \* per request: status code of the response, 0 while there is none
    server_dirs         \* the job ids j whose temp/{j} exists

client_vars == <<c_pc, c_stem, c_result, temp_exists, temp_files, s_pc, s_job, s_status, server_dirs>>

VARIABLES
    \* single calls of Timestamp(time) / str() and SubtitleEntry.to_srt_block (models.py)
    time,               \* Timestamp: the argument `time`
    time_str,           \* str(Timestamp(time))
    entry,              \* to_srt_block: self
    use_translation,    \* to_srt_block: parameter
    is_bilingual,       \* to_srt_block: parameter
    block,              \* to_srt_block: the returned block, as its lines
    call_pc             \* "idle" | "called" | "returned" | "raised"

call_vars == <<time, time_str, entry, use_translation, is_bilingual, block, call_pc>>

vars == <<chunk_vars, merge_vars, translate_vars, handler_vars, client_vars, call_vars>>

----------------------------------------------------------------------------
(* Bounds *)

MaxAudioLen == 16
MaxChunkLen == 10
MaxSilences == 2
MaxChunks == 3
MaxEntries == 4
MaxFiles == 12
MaxSubs == 5
MaxBatch == 3
MaxOverlap == 2
MaxReturned == 2
MaxJobChunks == 2
MaxJobEntries == 2
MaxProcs == 2

----------------------------------------------------------------------------
(* Strings as sequences of character codes *)

\* str(n) for n >= 0: the decimal digits, '0' = 48
RECURSIVE Digits(_)
Digits(n) == IF n < 10 THEN <<48 + n>> ELSE Digits(n \div 10) \o <<48 + (n % 10)>>

\* ".wav" and ".srt"
WavSuffix == <<46, 119, 97, 118>>
SrtSuffix == <<46, 115, 114, 116>>

\* f"chunk_{idx}_{start}": "chunk_" = 99 104 117 110 107 95
ChunkStem(i, s) == <<99, 104, 117, 110, 107, 95>> \o Digits(i) \o <<95>> \o Digits(s)

\* f"chunk_{idx}_{start}.wav"
ChunkWavName(i, s) == ChunkStem(i, s) \o WavSuffix

----------------------------------------------------------------------------
(* chunk_audio *)

\* len(audio) <= max_duration_ms: the early return
IsSingleChunk(D, M) == D <= M

\* variant: the early return numbers its chunk from 1
SingleChunkFile_OneBased(D) == [name |-> ChunkWavName(1, 0), from |-> 0, to |-> D]

\* the file exported by the early return: chunk_0_0.wav holding the whole audio
SingleChunkFile(D) == [name |-> ChunkWavName(0, 0), from |-> 0, to |-> D]

\* variant: the window reaches back to the cursor
Flexibility_Whole(M) == M

\* flexibility = max_duration_ms // 5
Flexibility(M) == M \div 5

Abs(x) == IF x < 0 THEN -x ELSE x

\* candidates = [s for s in silence_midpoints if window_start <= s <= window_end]
Candidates(mids, ideal_end, M) ==
    {s \in mids : ideal_end - Flexibility(M) <= s /\ s <= ideal_end + Flexibility(M)}

\* variant: of two equally close midpoints the later one is taken
CutPoint_LatestOnTie(mids, ideal_end, M) ==
    LET c == Candidates(mids, ideal_end, M)
    IN  IF c = {} THEN ideal_end
        ELSE CHOOSE s \in c :
                \A t \in c : \/ Abs(s - ideal_end) < Abs(t - ideal_end)
                             \/ Abs(s - ideal_end) = Abs(t - ideal_end) /\ s >= t

\* min(candidates, key=lambda s: abs(s - ideal_end)) if candidates else ideal_end
\* (silence_midpoints is in ascending order, min() keeps the first minimum)
CutPoint(mids, ideal_end, M) ==
    LET c == Candidates(mids, ideal_end, M)
    IN  IF c = {} THEN ideal_end
        ELSE CHOOSE s \in c :
                \A t \in c : \/ Abs(s - ideal_end) < Abs(t - ideal_end)
                             \/ Abs(s - ideal_end) = Abs(t - ideal_end) /\ s <= t

\* variant: the exported slice stops one millisecond short, audio[a:b-1]
ChunkFile_ShortSlice(i, a, b, D) ==
    [name |-> ChunkWavName(i, a), from |-> a, to |-> (IF b > D THEN D ELSE b) - 1]

\* audio[a:b] exported as chunk_{idx}_{start}.wav (a slice is clipped to the audio)
ChunkFile(i, a, b, D) ==
    [name |-> ChunkWavName(i, a), from |-> a, to |-> IF b > D THEN D ELSE b]

\* if len(audio) <= max_duration_ms: export chunk_0_0.wav; return [chunk_path]
ChunkSingle ==
    /\ chunk_pc = "idle"
    /\ IsSingleChunk(audio_len, max_duration_ms)
    /\ chunks' = <<SingleChunkFile(audio_len)>>
    /\ chunk_pc' = "returned"
    /\ UNCHANGED <<audio_len, max_duration_ms, silence_midpoints, start, idx>>
    /\ UNCHANGED <<merge_vars, translate_vars, handler_vars, client_vars, call_vars>>

\* chunks = []; start = 0; idx = 0
ChunkEnterLoop ==
    /\ chunk_pc = "idle"
    /\ ~IsSingleChunk(audio_len, max_duration_ms)
    /\ chunks' = << >>
    /\ start' = 0
    /\ idx' = 0
    /\ chunk_pc' = "loop"
    /\ UNCHANGED <<audio_len, max_duration_ms, silence_midpoints>>
    /\ UNCHANGED <<merge_vars, translate_vars, handler_vars, client_vars, call_vars>>

\* loop body, branch ideal_end >= len(audio): export audio[start:], break, return
ChunkFinal ==
    /\ chunk_pc = "loop"
    /\ start < audio_len
    /\ start + max_duration_ms >= audio_len
    /\ chunks' = Append(chunks, ChunkFile(idx, start, audio_len, audio_len))
    /\ chunk_pc' = "returned"
    /\ UNCHANGED <<audio_len, max_duration_ms, silence_midpoints, start, idx>>
    /\ UNCHANGED <<merge_vars, translate_vars, handler_vars, client_vars, call_vars>>

\* loop body, cutting branch: export audio[start:cut_point]; start = cut_point; idx += 1
ChunkCut ==
    /\ chunk_pc = "loop"
    /\ start < audio_len
    /\ start + max_duration_ms < audio_len
    /\ LET cut_point == CutPoint(silence_midpoints, start + max_duration_ms, max_duration_ms)
       IN  /\ chunks' = Append(chunks, ChunkFile(idx, start, cut_point, audio_len))
           /\ start' = cut_point
    /\ idx' = idx + 1
    /\ UNCHANGED <<audio_len, max_duration_ms, silence_midpoints, chunk_pc>>
    /\ UNCHANGED <<merge_vars, translate_vars, handler_vars, client_vars, call_vars>>

----------------------------------------------------------------------------
(* Paths: sorted(), Path.stem, Path.suffix, int(stem.split("_")[-1]) *)

\* a < b for str: code points compared left to right, a proper prefix is smaller
RECURSIVE LexLessFrom(_, _, _)
LexLessFrom(a, b, i) ==
    IF i > Len(a) THEN i <= Len(b)
    ELSE IF i > Len(b) THEN FALSE
    ELSE IF a[i] # b[i] THEN a[i] < b[i]
    ELSE LexLessFrom(a, b, i + 1)

LexLess(a, b) == LexLessFrom(a, b, 1)

\* sorted(directory entries): ascending by path, i.e. by file name
RECURSIVE SortedFiles(_)
SortedFiles(S) ==
    IF S = {} THEN << >>
    ELSE LET m == CHOOSE f \in S : \A g \in S \ {f} : LexLess(f.name, g.name)
         IN  <<m>> \o SortedFiles(S \ {m})

\* position of the last occurrence of character c in s (0 if none)
LastIndexOf(s, c) ==
    IF \E i \in 1..Len(s) : s[i] = c
    THEN CHOOSE i \in 1..Len(s) : s[i] = c /\ \A j \in (i + 1)..Len(s) : s[j] # c
    ELSE 0

\* Path.stem: the name without its last suffix
Stem(name) ==
    LET d == LastIndexOf(name, 46)
    IN  IF d <= 1 THEN name ELSE SubSeq(name, 1, d - 1)

\* Path.suffix: the last suffix, with its dot
Suffix(name) ==
    LET d == LastIndexOf(name, 46)
    IN  IF d <= 1 THEN << >> ELSE SubSeq(name, d, Len(name))

\* int(s) for a string of decimal digits
RECURSIVE ParseInt(_)
ParseInt(s) ==
    IF Len(s) = 1 THEN s[1] - 48
    ELSE ParseInt(SubSeq(s, 1, Len(s) - 1)) * 10 + (s[Len(s)] - 48)

\* stem.split("_")[-1]: what follows the last underscore
LastField(stem) == SubSeq(stem, LastIndexOf(stem, 95) + 1, Len(stem))

----------------------------------------------------------------------------
(* Timestamp (models.py): "HH:MM:SS,mmm" as a sequence of character codes *)

\* f"{n:0w}": at least w digits, zero padded
Pad(n, w) ==
    LET d == Digits(n)
    IN  IF Len(d) >= w THEN d ELSE [i \in 1..w |-> IF i <= w - Len(d) THEN 48 ELSE d[i - (w - Len(d))]]

IsDigit(c) == 48 <= c /\ c <= 57

\* re.match(r'(\d{2}):(\d{2}):(\d{2}),(\d{3})', time): a match at the start of the string
TimestampMatches(t) ==
    /\ Len(t) >= 12
    /\ \A i \in {1, 2, 4, 5, 7, 8, 10, 11, 12} : IsDigit(t[i])
    /\ t[3] = 58 /\ t[6] = 58 /\ t[9] = 44

\* Timestamp._parse: (hr * 3600 + min * 60 + s) * 1000 + ms
TimestampParse(t) ==
    LET hr == ParseInt(SubSeq(t, 1, 2))
        mn == ParseInt(SubSeq(t, 4, 5))
        sc == ParseInt(SubSeq(t, 7, 8))
        ms == ParseInt(SubSeq(t, 10, 12))
    IN  (hr * 3600 + mn * 60 + sc) * 1000 + ms

\* Timestamp.__str__: f"{hr:02}:{min:02}:{s:02},{ms:03}"
TimestampStr(milliseconds) ==
    LET ms == milliseconds % 1000
        sc == (milliseconds \div 1000) % 60
        mn == (milliseconds \div (1000 * 60)) % 60
        hr == milliseconds \div (1000 * 3600)
    IN  Pad(hr, 2) \o <<58>> \o Pad(mn, 2) \o <<58>> \o Pad(sc, 2) \o <<44>> \o Pad(ms, 3)

----------------------------------------------------------------------------
(* SubtitleEntry and Transcription (models.py) *)

\* Optional[str] = None
None == "<None>"

\* variant: only the start time is shifted
SubtitleOffset_StartOnly(e, offset_ms) ==
    [e EXCEPT !.start_time = TimestampStr(TimestampParse(e.start_time) + offset_ms)]

\* SubtitleEntry.offset: both times go through Timestamp(...) + Timestamp(ms) and str()
SubtitleOffset(e, offset_ms) ==
    [e EXCEPT !.start_time = TimestampStr(TimestampParse(e.start_time) + offset_ms),
              !.end_time = TimestampStr(TimestampParse(e.end_time) + offset_ms)]

\* Transcription.from_srt: one SubtitleEntry per matched block, in file order;
\* end_index is the index of the last block, or 0 without blocks
FromSrt(content, end_time) ==
    [subtitles |-> [i \in 1..Len(content) |->
                        [index |-> content[i].index,
                         start_time |-> content[i].start_time,
                         end_time |-> content[i].end_time,
                         text |-> content[i].text,
                         translation |-> None]],
     end_time |-> end_time,
     end_index |-> IF Len(content) > 0 THEN content[Len(content)].index ELSE 0]

\* Transcription.offset: shifts every subtitle; end_time and end_index are not touched
TranscriptionOffset(t, offset_ms, offset_index) ==
    [t EXCEPT !.subtitles = [i \in 1..Len(t.subtitles) |->
        [SubtitleOffset(t.subtitles[i], offset_ms) EXCEPT !.index = @ + offset_index]]]

----------------------------------------------------------------------------
(* The transcripts Whisper returns for one chunk *)

\* times of the model: multiples of 20.25 s, so that offsets carry into seconds and minutes
Ticks(k) == k * 20250

\* a cue starting at local time s (ms) with index k
Block(k, s) ==
    [index |-> k, start_time |-> TimestampStr(s), end_time |-> TimestampStr(s + 19750), text |-> "cue"]

\* well-ordered transcripts of n cues for a chunk of duration dur: indices 1..n,
\* non-decreasing start times inside the chunk
TranscriptsOfLen(dur, n) ==
    {[k \in 1..n |-> Block(k, st[k])] :
        st \in {f \in [1..n -> {Ticks(j) : j \in 0..((dur \div Ticks(1)) - 1)}] :
                    \A k \in 1..(n - 1) : f[k] <= f[k + 1]}}

Transcripts(dur, most) == UNION {TranscriptsOfLen(dur, n) : n \in 0..most}

RECURSIVE EntriesIn(_)
EntriesIn(dir) ==
    IF dir = {} THEN 0
    ELSE LET f == CHOOSE g \in dir : TRUE IN Len(f.content) + EntriesIn(dir \ {f})

----------------------------------------------------------------------------
(* create_transcription *)

\* the cues all transcripts of one job may hold together: a whole job, from
\* the upload to the response, is explored with a smaller budget
EntryBudget == IF h_pc = "off" THEN MaxEntries ELSE MaxJobEntries

\* the loop header: sorted(input_directory.iterdir())
CreateTranscriptionStart ==
    /\ job_pc = "uploaded"
    /\ wav_files' = SortedFiles(chunks_dir)
    /\ ct_pos' = 0
    /\ job_pc' = "transcribing"
    /\ UNCHANGED <<chunks_dir, whisper_dir, srt_files, pt_pos, combined>>
    /\ UNCHANGED <<chunk_vars, translate_vars, handler_vars, client_vars, call_vars>>

\* one iteration of `for chunk in sorted(input_directory.iterdir())`
CreateTranscriptionStep ==
    /\ job_pc = "transcribing"
    /\ ct_pos < Len(wav_files)
    /\ LET chunk == wav_files[ct_pos + 1]
       IN  IF Suffix(chunk.name) # WavSuffix
           THEN UNCHANGED whisper_dir
           ELSE \E content \in Transcripts(chunk.to - chunk.from, EntryBudget - EntriesIn(whisper_dir)) :
                    whisper_dir' = {f \in whisper_dir : f.name # Stem(chunk.name) \o SrtSuffix}
                                    \cup {[name |-> Stem(chunk.name) \o SrtSuffix, content |-> content]}
    /\ ct_pos' = ct_pos + 1
    /\ UNCHANGED <<chunks_dir, wav_files, srt_files, pt_pos, combined, job_pc>>
    /\ UNCHANGED <<chunk_vars, translate_vars, handler_vars, client_vars, call_vars>>

----------------------------------------------------------------------------
(* process_transcription *)

\* input_directory.glob("*.srt")
GlobSrt(dir) == {f \in dir : Suffix(f.name) = SrtSuffix}

\* srt_files = sorted(...); combined = Transcription(subtitles=[], end_time=0, end_index=0)
ProcessTranscriptionStart ==
    /\ job_pc = "transcribing"
    /\ ct_pos = Len(wav_files)
    /\ srt_files' = SortedFiles(GlobSrt(whisper_dir))
    /\ combined' = [subtitles |-> << >>, end_time |-> 0, end_index |-> 0]
    /\ pt_pos' = 0
    /\ job_pc' = "merging"
    /\ UNCHANGED <<chunks_dir, whisper_dir, wav_files, ct_pos>>
    /\ UNCHANGED <<chunk_vars, translate_vars, handler_vars, client_vars, call_vars>>

\* one iteration of `for srt_file in srt_files`
MergeStep ==
    /\ job_pc = "merging"
    /\ pt_pos < Len(srt_files)
    /\ LET srt_file == srt_files[pt_pos + 1]
           end_time == ParseInt(LastField(Stem(srt_file.name)))
           parsed == FromSrt(srt_file.content, end_time)
           transcription == IF Len(combined.subtitles) > 0
                            THEN TranscriptionOffset(parsed, combined.end_time, combined.end_index)
                            ELSE parsed
       IN  combined' = [subtitles |-> combined.subtitles \o transcription.subtitles,
                        end_time |-> transcription.end_time,
                        end_index |-> transcription.end_index]
    /\ pt_pos' = pt_pos + 1
    /\ UNCHANGED <<chunks_dir, whisper_dir, wav_files, srt_files, ct_pos, job_pc>>
    /\ UNCHANGED <<chunk_vars, translate_vars, handler_vars, client_vars, call_vars>>

\* return combined
ProcessTranscriptionReturn ==
    /\ job_pc = "merging"
    /\ pt_pos = Len(srt_files)
    /\ job_pc' = "merged"
    /\ UNCHANGED <<chunks_dir, whisper_dir, wav_files, srt_files, ct_pos, pt_pos, combined>>
    /\ UNCHANGED <<chunk_vars, translate_vars, handler_vars, client_vars, call_vars>>

----------------------------------------------------------------------------
(* The uploaded chunk files of a job *)

\* the files chunk_audio leaves for chunks of the given durations:
\* chunk i starts where chunk i-1 ended, chunk_{i}_{start}.wav
RECURSIVE StartOf(_, _)
StartOf(durs, i) == IF i = 1 THEN 0 ELSE StartOf(durs, i - 1) + durs[i - 1]

UploadedChunks(durs) ==
    {[name |-> ChunkWavName(i - 1, StartOf(durs, i)),
      from |-> StartOf(durs, i),
      to |-> StartOf(durs, i) + durs[i]] : i \in 1..Len(durs)}

Procs == 1..MaxProcs

CallIdle ==
    /\ time = << >>
    /\ time_str = << >>
    /\ entry = [index |-> 0, start_time |-> << >>, end_time |-> << >>, text |-> "", translation |-> ""]
    /\ use_translation = FALSE
    /\ is_bilingual = FALSE
    /\ block = << >>
    /\ call_pc = "idle"

HandlerIdle ==
    /\ h_pc = "off"
    /\ response = [status |-> 0, english_srt |-> << >>, translated_srt |-> << >>, bilingual_srt |-> << >>]

ClientIdle ==
    /\ c_pc = [p \in Procs |-> "off"]
    /\ c_stem = [p \in Procs |-> ""]
    /\ c_result = [p \in Procs |-> "none"]
    /\ temp_exists = {}
    /\ temp_files = {}
    /\ s_pc = [p \in Procs |-> "off"]
    /\ s_job = [p \in Procs |-> 0]
    /\ s_status = [p \in Procs |-> 0]
    /\ server_dirs = {}

TranslateIdle ==
    /\ subtitles = << >>
    /\ batch_size = 0
    /\ overlap = 0
    /\ tr_i = 0
    /\ requests = << >>
    /\ translations = << >>
    /\ tr_pc = "idle"

ChunkIdle ==
    /\ audio_len = 0
    /\ max_duration_ms = 0
    /\ silence_midpoints = {}
    /\ start = 0
    /\ idx = 0
    /\ chunks = << >>
    /\ chunk_pc = "idle"

MergeIdle ==
    /\ chunks_dir = {}
    /\ whisper_dir = {}
    /\ wav_files = << >>
    /\ srt_files = << >>
    /\ ct_pos = 0
    /\ pt_pos = 0
    /\ combined = [subtitles |-> << >>, end_time |-> 0, end_index |-> 0]
    /\ job_pc = "idle"

\* a job of 1..MaxChunks chunks of one or two ticks each
InitMerge ==
    /\ HandlerIdle
    /\ ClientIdle
    /\ CallIdle
    /\ ChunkIdle
    /\ \E n \in 1..MaxChunks : \E durs \in [1..n -> {Ticks(1), Ticks(2)}] :
            chunks_dir = UploadedChunks(durs)
    /\ whisper_dir = {}
    /\ wav_files = << >>
    /\ srt_files = << >>
    /\ ct_pos = 0
    /\ pt_pos = 0
    /\ combined = [subtitles |-> << >>, end_time |-> 0, end_index |-> 0]
    /\ job_pc = "uploaded"
    /\ TranslateIdle

NextMerge ==
    \/ CreateTranscriptionStart
    \/ CreateTranscriptionStep
    \/ ProcessTranscriptionStart
    \/ MergeStep
    \/ ProcessTranscriptionReturn

SpecMerge == InitMerge /\ [][NextMerge]_vars

\* a job of up to MaxFiles chunks of one tick each
InitSort ==
    /\ HandlerIdle
    /\ ClientIdle
    /\ CallIdle
    /\ ChunkIdle
    /\ \E n \in 1..MaxFiles : chunks_dir = UploadedChunks([i \in 1..n |-> Ticks(1)])
    /\ whisper_dir = {}
    /\ wav_files = << >>
    /\ srt_files = << >>
    /\ ct_pos = 0
    /\ pt_pos = 0
    /\ combined = [subtitles |-> << >>, end_time |-> 0, end_index |-> 0]
    /\ job_pc = "uploaded"
    /\ TranslateIdle

SpecSort == InitSort /\ [][NextMerge]_vars

----------------------------------------------------------------------------
(* Transcription.translate_subtitles *)

Min(a, b) == IF a < b THEN a ELSE b
Max(a, b) == IF a > b THEN a ELSE b

\* [{'id': s.index, 'text': s.text} for s in self.subtitles[a:b]]  (0-based slice a:b)
IdTexts(subs, a, b) ==
    [k \in 1..(Min(b, Len(subs)) - a) |-> [id |-> subs[a + k].index, text |-> subs[a + k].text]]

\* the prompt of the batch that starts at i
Prompt(subs, i, B, ov) ==
    LET start_ctx == Max(0, i - ov)
        end_ctx == Min(Len(subs), i + B + ov)
    IN  [context_before |-> IF i > 0 THEN IdTexts(subs, start_ctx, i) ELSE << >>,
         texts_to_translate |-> IdTexts(subs, i, i + B),
         context_after |-> IF i + B < Len(subs) THEN IdTexts(subs, i + B, end_ctx) ELSE << >>]

\* variant: an entry without a matching pair keeps its translation unset
MatchedTranslation_KeepsNone(returned, index) ==
    IF \E k \in 1..Len(returned) : returned[k].id = index
    THEN returned[CHOOSE k \in 1..Len(returned) :
            /\ returned[k].id = index
            /\ \A j \in 1..(k - 1) : returned[j].id # index].text
    ELSE None

\* variant: of several pairs with the id the last one is taken
MatchedTranslation_Last(returned, index) ==
    IF \E k \in 1..Len(returned) : returned[k].id = index
    THEN returned[CHOOSE k \in 1..Len(returned) :
            /\ returned[k].id = index
            /\ \A j \in (k + 1)..Len(returned) : returned[j].id # index].text
    ELSE ""

\* next((t for t in translations if t.id == subtitle.index), None), then
\* translated.text if translated else ""
MatchedTranslation(returned, index) ==
    IF \E k \in 1..Len(returned) : returned[k].id = index
    THEN returned[CHOOSE k \in 1..Len(returned) :
            /\ returned[k].id = index
            /\ \A j \in 1..(k - 1) : returned[j].id # index].text
    ELSE ""

\* the ids a prompt shows to the translator: batch and context
PromptIds(prompt) ==
    {prompt.texts_to_translate[k].id : k \in 1..Len(prompt.texts_to_translate)}
    \cup {prompt.context_before[k].id : k \in 1..Len(prompt.context_before)}
    \cup {prompt.context_after[k].id : k \in 1..Len(prompt.context_after)}

\* what the translator may return for a prompt: up to MaxReturned pairs whose
\* ids are ids of the prompt (batch or context, repeats allowed) or 0, an id
\* no entry carries; the k-th pair carries the text "t<k>"
PairText(k) == IF k = 1 THEN "t1" ELSE IF k = 2 THEN "t2" ELSE IF k = 3 THEN "t3" ELSE "t4"

Responses(prompt) ==
    UNION {{[k \in 1..n |-> [id |-> ids[k], text |-> PairText(k)]] :
                ids \in [1..n -> {0} \cup PromptIds(prompt)]}
            : n \in 0..MaxReturned}

\* variant: the batch slice starts one entry early, self.subtitles[i-1:i+batch_size]
InBatch_StartsEarly(p, i, B) == i <= p /\ p <= i + B

\* batch = self.subtitles[i:i + batch_size]: the (1-based) position p lies in the batch
InBatch(p, i, B) == i < p /\ p <= i + B

\* for subtitle in batch: subtitle.translation = translated.text if translated else ""
AssignBatch(subs, i, B, returned) ==
    [p \in 1..Len(subs) |->
        IF InBatch(p, i, B)
        THEN [subs[p] EXCEPT !.translation = MatchedTranslation(returned, subs[p].index)]
        ELSE subs[p]]

\* for i in range(0, len(self.subtitles), batch_size): the loop is entered
TranslateStart ==
    /\ tr_pc = "idle"
    /\ tr_i' = 0
    /\ tr_pc' = "loop"
    /\ UNCHANGED <<subtitles, batch_size, overlap, requests, translations>>
    /\ UNCHANGED <<chunk_vars, merge_vars, handler_vars, client_vars, call_vars>>

\* one iteration: build the prompt, call the translator, assign the batch
TranslateBatch ==
    /\ tr_pc = "loop"
    /\ tr_i < Len(subtitles)
    /\ requests' = Append(requests, Prompt(subtitles, tr_i, batch_size, overlap))
    /\ \E returned \in Responses(Prompt(subtitles, tr_i, batch_size, overlap)) :
            subtitles' = AssignBatch(subtitles, tr_i, batch_size, returned)
    /\ tr_i' = tr_i + batch_size
    /\ UNCHANGED <<batch_size, overlap, translations, tr_pc>>
    /\ UNCHANGED <<chunk_vars, merge_vars, handler_vars, client_vars, call_vars>>

\* the range is exhausted
TranslateReturn ==
    /\ tr_pc = "loop"
    /\ tr_i >= Len(subtitles)
    /\ tr_pc' = "returned"
    /\ UNCHANGED <<subtitles, batch_size, overlap, tr_i, requests, translations>>
    /\ UNCHANGED <<chunk_vars, merge_vars, handler_vars, client_vars, call_vars>>

\* the index lists process_transcription hands over: 1..n, or with the last
\* index repeated (the watermark of MergeStep is the chunk-local end_index)
IndexLists(n) ==
    {[i \in 1..n |-> i]} \cup {[i \in 1..n |-> IF i = n /\ n > 1 THEN n - 1 ELSE i]}

\* a merged, untranslated timeline of up to MaxSubs entries
InitTranslate ==
    /\ HandlerIdle
    /\ ClientIdle
    /\ CallIdle
    /\ ChunkIdle
    /\ MergeIdle
    /\ \E n \in 0..MaxSubs : \E ix \in IndexLists(n) :
        subtitles = [i \in 1..n |->
            [index |-> ix[i],
             start_time |-> TimestampStr(Ticks(i)),
             end_time |-> TimestampStr(Ticks(i) + 19750),
             text |-> "cue",
             translation |-> None]]
    /\ batch_size \in 1..MaxBatch
    /\ overlap \in 0..MaxOverlap
    /\ tr_i = 0
    /\ requests = << >>
    /\ translations = << >>
    /\ tr_pc = "idle"

\* the assignment loop on its own: a timeline whose batches before i are
\* translated, and the pairs parsed from the response to the batch at i
InitMatch ==
    /\ ChunkIdle
    /\ MergeIdle
    /\ HandlerIdle
    /\ ClientIdle
    /\ CallIdle
    /\ batch_size \in 1..MaxBatch
    /\ overlap \in {0, MaxOverlap}
    /\ \E n \in 1..MaxSubs : \E ix \in IndexLists(n) : \E b \in 0..((n - 1) \div batch_size) :
        /\ tr_i = b * batch_size
        /\ subtitles = [i \in 1..n |->
            [index |-> ix[i],
             start_time |-> TimestampStr(Ticks(i)),
             end_time |-> TimestampStr(Ticks(i) + 19750),
             text |-> "cue",
             translation |-> IF i <= tr_i THEN "t1" ELSE None]]
    /\ requests = << >>
    /\ translations \in Responses(Prompt(subtitles, tr_i, batch_size, overlap))
    /\ tr_pc = "parsed"

\* lines 123-128 for one batch
AssignTranslations ==
    /\ tr_pc = "parsed"
    /\ subtitles' = AssignBatch(subtitles, tr_i, batch_size, translations)
    /\ tr_pc' = "assigned"
    /\ UNCHANGED <<batch_size, overlap, tr_i, requests, translations>>
    /\ UNCHANGED <<chunk_vars, merge_vars, handler_vars, client_vars, call_vars>>

NextMatch == AssignTranslations

SpecMatch == InitMatch /\ [][NextMatch]_vars

NextTranslate ==
    \/ TranslateStart
    \/ TranslateBatch
    \/ TranslateReturn

SpecTranslate == InitTranslate /\ [][NextTranslate]_vars

----------------------------------------------------------------------------
(* chunk_audio: initial states and specification *)

\* the audio handed to chunk_audio: detect_silence returns ranges of at least
\* min_silence_len inside the audio, so every midpoint lies in 0 .. len(audio)-1
InitChunk ==
    /\ HandlerIdle
    /\ ClientIdle
    /\ CallIdle
    /\ audio_len \in 1..MaxAudioLen
    /\ max_duration_ms \in 1..MaxChunkLen
    /\ silence_midpoints \in {m \in SUBSET (0..(audio_len - 1)) : Cardinality(m) <= MaxSilences}
    /\ start = 0
    /\ idx = 0
    /\ chunks = << >>
    /\ chunk_pc = "idle"
    /\ MergeIdle
    /\ TranslateIdle

NextChunk ==
    \/ ChunkSingle
    \/ ChunkEnterLoop
    \/ ChunkFinal
    \/ ChunkCut

SpecChunk == InitChunk /\ [][NextChunk]_vars

\* chunk_audio runs on its own: a loop body that can be executed is executed
SpecChunkFair == SpecChunk /\ WF_vars(NextChunk)

----------------------------------------------------------------------------
(* SubtitleEntry.to_srt_block, Transcription.to_srt *)

\* variant: only None counts as no translation
Truthy_NotNone(translation) == translation # None

\* `self.translation` used as a condition: None and "" are both false
Truthy(translation) == translation # None /\ translation # ""

\* " --> "
Arrow == <<32, 45, 45, 62, 32>>

\* the block f"{self.index}\n{self.start_time} --> {self.end_time}\n{content}\n"
\* as its lines, each ended by "\n"; content is one line, or two when bilingual
ToSrtBlock(e, use_tr, is_bi) ==
    LET content == IF use_tr /\ Truthy(e.translation) THEN <<e.translation>> ELSE <<e.text>>
    IN  <<Digits(e.index), e.start_time \o Arrow \o e.end_time>>
            \o (IF is_bi /\ Truthy(e.translation) THEN <<e.text, e.translation>> ELSE content)

\* "\n".join(blocks): the blocks in order
ToSrt(subs, use_tr, is_bi) ==
    [k \in 1..Len(subs) |-> ToSrtBlock(subs[k], use_tr, is_bi)]

\* entries to render: with no translation, an empty one and a real one
InitRender ==
    /\ ChunkIdle
    /\ MergeIdle
    /\ TranslateIdle
    /\ HandlerIdle
    /\ ClientIdle
    /\ time = << >>
    /\ time_str = << >>
    /\ \E i \in 1..MaxSubs : \E k \in 0..1 : \E tr \in {None, "", "t1"} :
        entry = [index |-> i,
                 start_time |-> TimestampStr(Ticks(k)),
                 end_time |-> TimestampStr(Ticks(k) + 19750),
                 text |-> "cue",
                 translation |-> tr]
    /\ use_translation \in BOOLEAN
    /\ is_bilingual \in BOOLEAN
    /\ block = << >>
    /\ call_pc = "called"

\* entry.to_srt_block(use_translation, is_bilingual)
ToSrtBlockCall ==
    /\ call_pc = "called"
    /\ block' = ToSrtBlock(entry, use_translation, is_bilingual)
    /\ call_pc' = "returned"
    /\ UNCHANGED <<time, time_str, entry, use_translation, is_bilingual>>
    /\ UNCHANGED <<chunk_vars, merge_vars, translate_vars, handler_vars, client_vars>>

NextRender == ToSrtBlockCall

SpecRender == InitRender /\ [][NextRender]_vars

----------------------------------------------------------------------------
(* Timestamp(time) followed by str() *)

\* the strings handed to Timestamp: fields at and beyond the clock ranges,
\* "," or "." before the milliseconds, with or without a trailing character
FieldValues == {0, 1, 59, 60, 99}
MillisValues == {0, 1, 999}

TimeStrings ==
    {Pad(h, 2) \o <<58>> \o Pad(m, 2) \o <<58>> \o Pad(sc, 2) \o <<sep>> \o Pad(ms, 3) \o tail :
        h \in FieldValues, m \in FieldValues, sc \in FieldValues, ms \in MillisValues,
        sep \in {44, 46}, tail \in {<< >>, <<48>>}}

InitTimestamp ==
    /\ ChunkIdle
    /\ MergeIdle
    /\ TranslateIdle
    /\ HandlerIdle
    /\ ClientIdle
    /\ time \in TimeStrings
    /\ time_str = << >>
    /\ entry = [index |-> 0, start_time |-> << >>, end_time |-> << >>, text |-> "", translation |-> ""]
    /\ use_translation = FALSE
    /\ is_bilingual = FALSE
    /\ block = << >>
    /\ call_pc = "called"

\* str(Timestamp(time)): _parse raises ValueError when the pattern does not match
TimestampRoundTrip ==
    /\ call_pc = "called"
    /\ IF TimestampMatches(time)
       THEN /\ time_str' = TimestampStr(TimestampParse(time))
            /\ call_pc' = "returned"
       ELSE /\ call_pc' = "raised"
            /\ UNCHANGED time_str
    /\ UNCHANGED <<time, entry, use_translation, is_bilingual, block>>
    /\ UNCHANGED <<chunk_vars, merge_vars, translate_vars, handler_vars, client_vars>>

NextTimestamp == TimestampRoundTrip

SpecTimestamp == InitTimestamp /\ [][NextTimestamp]_vars

----------------------------------------------------------------------------
(* The /transcribe handler: one job from the upload to the response *)

NoResponse == [status |-> 0, english_srt |-> << >>, translated_srt |-> << >>, bilingual_srt |-> << >>]

\* chunks_dir.mkdir, whisper_dir.mkdir, the uploaded files are saved
HandlerSaveChunks ==
    /\ h_pc = "try"
    /\ job_pc = "idle"
    /\ \E n \in 1..MaxJobChunks : \E durs \in [1..n -> {Ticks(1), Ticks(2)}] :
            chunks_dir' = UploadedChunks(durs)
    /\ job_pc' = "uploaded"
    /\ UNCHANGED <<whisper_dir, wav_files, srt_files, ct_pos, pt_pos, combined>>
    /\ UNCHANGED <<chunk_vars, translate_vars, handler_vars, client_vars, call_vars>>

\* saving raises (mkdir or a copy fails): nothing usable is on disk
HandlerSaveFails ==
    /\ h_pc = "try"
    /\ job_pc = "idle"
    /\ job_pc' = "raised"
    /\ UNCHANGED <<chunks_dir, whisper_dir, wav_files, srt_files, ct_pos, pt_pos, combined>>
    /\ UNCHANGED <<chunk_vars, translate_vars, handler_vars, client_vars, call_vars>>

\* variant: a failed transcription call is swallowed and the chunk skipped
WhisperFails_Skips ==
    /\ h_pc = "try"
    /\ job_pc = "transcribing"
    /\ ct_pos < Len(wav_files)
    /\ Suffix(wav_files[ct_pos + 1].name) = WavSuffix
    /\ ct_pos' = ct_pos + 1
    /\ UNCHANGED <<chunks_dir, whisper_dir, wav_files, srt_files, pt_pos, combined, job_pc>>
    /\ UNCHANGED <<chunk_vars, translate_vars, handler_vars, client_vars, call_vars>>

\* client.audio.transcriptions.create raises: the exception leaves
\* create_transcription, no transcript is written for the chunk
WhisperFails ==
    /\ h_pc = "try"
    /\ job_pc = "transcribing"
    /\ ct_pos < Len(wav_files)
    /\ Suffix(wav_files[ct_pos + 1].name) = WavSuffix
    /\ job_pc' = "raised"
    /\ UNCHANGED <<chunks_dir, whisper_dir, wav_files, srt_files, ct_pos, pt_pos, combined>>
    /\ UNCHANGED <<chunk_vars, translate_vars, handler_vars, client_vars, call_vars>>

\* combined.translate_subtitles(target_language=..., client=client) is called
\* on the merged timeline; batch_size and overlap are scaled to the timeline
HandlerTranslate ==
    /\ h_pc = "try"
    /\ job_pc = "merged"
    /\ tr_pc = "notcalled"
    /\ subtitles' = combined.subtitles
    /\ batch_size' \in 1..MaxBatch
    /\ overlap' = MaxOverlap
    /\ tr_pc' = "idle"
    /\ UNCHANGED <<tr_i, requests, translations>>
    /\ UNCHANGED <<chunk_vars, merge_vars, handler_vars, client_vars, call_vars>>

\* client.responses.parse raises: the exception leaves translate_subtitles,
\* the batch gets no translations
TranslatorFails ==
    /\ h_pc = "try"
    /\ tr_pc = "loop"
    /\ tr_i < Len(subtitles)
    /\ requests' = Append(requests, Prompt(subtitles, tr_i, batch_size, overlap))
    /\ tr_pc' = "raised"
    /\ UNCHANGED <<subtitles, batch_size, overlap, tr_i, translations>>
    /\ UNCHANGED <<chunk_vars, merge_vars, handler_vars, client_vars, call_vars>>

\* return TranscriptionResponse(...)
HandlerReturn ==
    /\ h_pc = "try"
    /\ tr_pc = "returned"
    /\ response' = [status |-> 200,
                    english_srt |-> ToSrt(subtitles, FALSE, FALSE),
                    translated_srt |-> ToSrt(subtitles, TRUE, FALSE),
                    bilingual_srt |-> ToSrt(subtitles, FALSE, TRUE)]
    /\ h_pc' = "finally"
    /\ UNCHANGED <<chunk_vars, merge_vars, translate_vars, client_vars, call_vars>>

\* except Exception as e: raise HTTPException(status_code=500, ...)
HandlerExcept ==
    /\ h_pc = "try"
    /\ job_pc = "raised" \/ tr_pc = "raised"
    /\ response' = [NoResponse EXCEPT !.status = 500]
    /\ h_pc' = "finally"
    /\ UNCHANGED <<chunk_vars, merge_vars, translate_vars, client_vars, call_vars>>

\* finally: if job_dir.exists(): shutil.rmtree(job_dir)
HandlerFinally ==
    /\ h_pc = "finally"
    /\ chunks_dir' = {}
    /\ whisper_dir' = {}
    /\ h_pc' = "done"
    /\ UNCHANGED <<wav_files, srt_files, ct_pos, pt_pos, combined, job_pc, response>>
    /\ UNCHANGED <<chunk_vars, translate_vars, client_vars, call_vars>>

\* a request has arrived, nothing is on disk, translate_subtitles not called
InitJob ==
    /\ ChunkIdle
    /\ MergeIdle
    /\ subtitles = << >>
    /\ batch_size = 0
    /\ overlap = 0
    /\ tr_i = 0
    /\ requests = << >>
    /\ translations = << >>
    /\ tr_pc = "notcalled"
    /\ h_pc = "try"
    /\ response = NoResponse
    /\ ClientIdle
    /\ CallIdle

NextJob ==
    \/ HandlerSaveChunks
    \/ HandlerSaveFails
    \/ CreateTranscriptionStart
    \/ CreateTranscriptionStep
    \/ WhisperFails
    \/ ProcessTranscriptionStart
    \/ MergeStep
    \/ ProcessTranscriptionReturn
    \/ HandlerTranslate
    \/ TranslateStart
    \/ TranslateBatch
    \/ TranslatorFails
    \/ TranslateReturn
    \/ HandlerReturn
    \/ HandlerExcept
    \/ HandlerFinally

SpecJob == InitJob /\ [][NextJob]_vars

----------------------------------------------------------------------------
(* Concurrent jobs: client transcribe() calls in one directory, each posting *)
(* one /transcribe request; the handler is followed step by step, without   *)
(* the data of the job                                                      *)

Stems == {"talk", "demo"}

AudioFile == "audio.wav"
FirstChunkFile == "chunks/chunk_0_0.wav"

\* the files of temp_dir that carry the given name
Named(dir, name) == {f \in temp_files : f.dir = dir /\ f.name = name}

\* temp_dir.mkdir(exist_ok=True): an existing directory is taken over as it is
ClientMkdir(p) ==
    /\ c_pc[p] = "start"
    /\ temp_exists' = temp_exists \cup {c_stem[p]}
    /\ c_pc' = [c_pc EXCEPT ![p] = "try"]
    /\ UNCHANGED <<c_stem, c_result, temp_files, s_pc, s_job, s_status, server_dirs>>
    /\ UNCHANGED <<chunk_vars, merge_vars, translate_vars, handler_vars, call_vars>>

\* convert_video_to_audio: ffmpeg -y writes temp_dir/audio.wav over any file
\* of that name; without the directory it fails
ClientConvert(p) ==
    /\ c_pc[p] = "try"
    /\ IF c_stem[p] \in temp_exists
       THEN /\ temp_files' = (temp_files \ Named(c_stem[p], AudioFile))
                                \cup {[dir |-> c_stem[p], name |-> AudioFile, by |-> p]}
            /\ c_pc' = [c_pc EXCEPT ![p] = "converted"]
            /\ UNCHANGED c_result
       ELSE /\ c_pc' = [c_pc EXCEPT ![p] = "finally"]
            /\ c_result' = [c_result EXCEPT ![p] = "raised"]
            /\ UNCHANGED temp_files
    /\ UNCHANGED <<c_stem, temp_exists, s_pc, s_job, s_status, server_dirs>>
    /\ UNCHANGED <<chunk_vars, merge_vars, translate_vars, handler_vars, call_vars>>

\* chunks_dir.mkdir(exist_ok=True); chunk_audio(audio_path, chunks_dir): reads
\* audio.wav and exports the chunks, the first always as chunk_0_0.wav
ClientChunk(p) ==
    /\ c_pc[p] = "converted"
    /\ IF c_stem[p] \in temp_exists /\ Named(c_stem[p], AudioFile) # {}
       THEN /\ temp_files' = (temp_files \ Named(c_stem[p], FirstChunkFile))
                                \cup {[dir |-> c_stem[p], name |-> FirstChunkFile, by |-> p]}
            /\ c_pc' = [c_pc EXCEPT ![p] = "chunked"]
            /\ UNCHANGED c_result
       ELSE /\ c_pc' = [c_pc EXCEPT ![p] = "finally"]
            /\ c_result' = [c_result EXCEPT ![p] = "raised"]
            /\ UNCHANGED temp_files
    /\ UNCHANGED <<c_stem, temp_exists, s_pc, s_job, s_status, server_dirs>>
    /\ UNCHANGED <<chunk_vars, merge_vars, translate_vars, handler_vars, call_vars>>

\* the chunk files are opened and posted to /transcribe
ClientPost(p) ==
    /\ c_pc[p] = "chunked"
    /\ IF Named(c_stem[p], FirstChunkFile) # {}
       THEN /\ c_pc' = [c_pc EXCEPT ![p] = "posted"]
            /\ s_pc' = [s_pc EXCEPT ![p] = "received"]
            /\ UNCHANGED c_result
       ELSE /\ c_pc' = [c_pc EXCEPT ![p] = "finally"]
            /\ c_result' = [c_result EXCEPT ![p] = "raised"]
            /\ UNCHANGED s_pc
    /\ UNCHANGED <<c_stem, temp_exists, temp_files, s_job, s_status, server_dirs>>
    /\ UNCHANGED <<chunk_vars, merge_vars, translate_vars, handler_vars, call_vars>>

\* a step of the try block raises for a reason of its own (ffmpeg, pydub, the
\* connection)
ClientRaises(p) ==
    /\ c_pc[p] \in {"try", "converted", "chunked"}
    /\ c_pc' = [c_pc EXCEPT ![p] = "finally"]
    /\ c_result' = [c_result EXCEPT ![p] = "raised"]
    /\ UNCHANGED <<c_stem, temp_exists, temp_files, s_pc, s_job, s_status, server_dirs>>
    /\ UNCHANGED <<chunk_vars, merge_vars, translate_vars, handler_vars, call_vars>>

\* job_id = str(uuid4()): an id no other job carries
ServerJobId(p) ==
    /\ s_pc[p] = "received"
    /\ s_job' = [s_job EXCEPT ![p] = 1 + Cardinality({q \in Procs : s_job[q] # 0})]
    /\ s_pc' = [s_pc EXCEPT ![p] = "try"]
    /\ UNCHANGED <<c_pc, c_stem, c_result, temp_exists, temp_files, s_status, server_dirs>>
    /\ UNCHANGED <<chunk_vars, merge_vars, translate_vars, handler_vars, call_vars>>

\* chunks_dir.mkdir(parents=True), whisper_dir.mkdir(parents=True), the
\* uploaded files are saved
ServerSave(p) ==
    /\ s_pc[p] = "try"
    /\ server_dirs' = server_dirs \cup {s_job[p]}
    /\ s_pc' = [s_pc EXCEPT ![p] = "saved"]
    /\ UNCHANGED <<c_pc, c_stem, c_result, temp_exists, temp_files, s_job, s_status>>
    /\ UNCHANGED <<chunk_vars, merge_vars, translate_vars, handler_vars, call_vars>>

\* the step that follows a position of the try block
StepAfter(pc) ==
    IF pc = "saved" THEN "transcribed"
    ELSE IF pc = "transcribed" THEN "merged"
    ELSE "translated"

\* create_transcription, process_transcription, translate_subtitles return
ServerStep(p) ==
    /\ s_pc[p] \in {"saved", "transcribed", "merged"}
    /\ s_pc' = [s_pc EXCEPT ![p] = StepAfter(s_pc[p])]
    /\ UNCHANGED <<c_pc, c_stem, c_result, temp_exists, temp_files, s_job, s_status, server_dirs>>
    /\ UNCHANGED <<chunk_vars, merge_vars, translate_vars, handler_vars, call_vars>>

\* return TranscriptionResponse(...)
ServerRespond(p) ==
    /\ s_pc[p] = "translated"
    /\ s_status' = [s_status EXCEPT ![p] = 200]
    /\ s_pc' = [s_pc EXCEPT ![p] = "finally"]
    /\ UNCHANGED <<c_pc, c_stem, c_result, temp_exists, temp_files, s_job, server_dirs>>
    /\ UNCHANGED <<chunk_vars, merge_vars, translate_vars, handler_vars, call_vars>>

\* the next step of the try block raises (saving, transcription, merging,
\* translation, rendering); a failed save may have made the directory
ServerRaises(p) ==
    /\ s_pc[p] \in {"try", "saved", "transcribed", "merged", "translated"}
    /\ \/ UNCHANGED server_dirs
       \/ s_pc[p] = "try" /\ server_dirs' = server_dirs \cup {s_job[p]}
    /\ s_status' = [s_status EXCEPT ![p] = 500]
    /\ s_pc' = [s_pc EXCEPT ![p] = "finally"]
    /\ UNCHANGED <<c_pc, c_stem, c_result, temp_exists, temp_files, s_job>>
    /\ UNCHANGED <<chunk_vars, merge_vars, translate_vars, handler_vars, call_vars>>

\* variant: the directory is removed at the end of the try block only
ServerFinally_OnSuccess(p) ==
    /\ s_pc[p] = "finally"
    /\ server_dirs' = IF s_status[p] = 200 THEN server_dirs \ {s_job[p]} ELSE server_dirs
    /\ s_pc' = [s_pc EXCEPT ![p] = "done"]
    /\ UNCHANGED <<c_pc, c_stem, c_result, temp_exists, temp_files, s_job, s_status>>
    /\ UNCHANGED <<chunk_vars, merge_vars, translate_vars, handler_vars, call_vars>>

\* finally: if job_dir.exists(): shutil.rmtree(job_dir)
ServerFinally(p) ==
    /\ s_pc[p] = "finally"
    /\ server_dirs' = server_dirs \ {s_job[p]}
    /\ s_pc' = [s_pc EXCEPT ![p] = "done"]
    /\ UNCHANGED <<c_pc, c_stem, c_result, temp_exists, temp_files, s_job, s_status>>
    /\ UNCHANGED <<chunk_vars, merge_vars, translate_vars, handler_vars, call_vars>>

\* if response.status_code != 200: raise RuntimeError; return response.json()
ClientResponse(p) ==
    /\ c_pc[p] = "posted"
    /\ s_pc[p] = "done"
    /\ c_result' = [c_result EXCEPT ![p] = IF s_status[p] = 200 THEN "returned" ELSE "raised"]
    /\ c_pc' = [c_pc EXCEPT ![p] = "finally"]
    /\ UNCHANGED <<c_stem, temp_exists, temp_files, s_pc, s_job, s_status, server_dirs>>
    /\ UNCHANGED <<chunk_vars, merge_vars, translate_vars, handler_vars, call_vars>>

\* finally: if temp_dir.exists(): shutil.rmtree(temp_dir)
ClientFinally(p) ==
    /\ c_pc[p] = "finally"
    /\ temp_exists' = temp_exists \ {c_stem[p]}
    /\ temp_files' = {f \in temp_files : f.dir # c_stem[p]}
    /\ c_pc' = [c_pc EXCEPT ![p] = "done"]
    /\ UNCHANGED <<c_stem, c_result, s_pc, s_job, s_status, server_dirs>>
    /\ UNCHANGED <<chunk_vars, merge_vars, translate_vars, handler_vars, call_vars>>

\* every call has an existing video; videos of one directory, file stems may
\* coincide (talk.mp4, talk.mkv)
InitClients ==
    /\ ChunkIdle
    /\ MergeIdle
    /\ TranslateIdle
    /\ HandlerIdle
    /\ CallIdle
    /\ c_pc = [p \in Procs |-> "start"]
    /\ c_stem \in [Procs -> Stems]
    /\ c_result = [p \in Procs |-> "none"]
    /\ temp_exists = {}
    /\ temp_files = {}
    /\ s_pc = [p \in Procs |-> "off"]
    /\ s_job = [p \in Procs |-> 0]
    /\ s_status = [p \in Procs |-> 0]
    /\ server_dirs = {}

NextClients ==
    \E p \in Procs :
        \/ ClientMkdir(p)
        \/ ClientConvert(p)
        \/ ClientChunk(p)
        \/ ClientPost(p)
        \/ ClientRaises(p)
        \/ ServerJobId(p)
        \/ ServerSave(p)
        \/ ServerStep(p)
        \/ ServerRespond(p)
        \/ ServerRaises(p)
        \/ ServerFinally(p)
        \/ ClientResponse(p)
        \/ ClientFinally(p)

SpecClients == InitClients /\ [][NextClients]_vars

----------------------------------------------------------------------------
(* Properties of process_transcription, checked under SpecMerge *)

\* the uploaded chunk a transcript file belongs to (same stem)
ChunkOfSrt(f) == CHOOSE c \in chunks_dir : Stem(c.name) = Stem(f.name)

\* the cues of the first p merged files at their place in the original audio:
\* chunk-local times plus the start position of their chunk
RECURSIVE GlobalCues(_)
GlobalCues(p) ==
    IF p = 0 THEN << >>
    ELSE LET f == srt_files[p]
             off == ChunkOfSrt(f).from
         IN  GlobalCues(p - 1) \o
             [k \in 1..Len(f.content) |->
                [start |-> TimestampParse(f.content[k].start_time) + off,
                 end |-> TimestampParse(f.content[k].end_time) + off]]

\* the highest index of a list of subtitles, 0 for the empty list
HighestIndex(subs) ==
    IF Len(subs) = 0 THEN 0
    ELSE CHOOSE m \in {subs[i].index : i \in 1..Len(subs)} :
            \A i \in 1..Len(subs) : subs[i].index <= m

\* C1 (offset composition): when process_transcription returns, the subtitles
\* of the merged timeline carry, in list order, the indices 1..K, where K is
\* the total number of cues of all chunk transcripts.
C1_IndicesAreOneToK ==
    job_pc = "merged" =>
        /\ Len(combined.subtitles) = EntriesIn(whisper_dir)
        /\ \A i \in 1..Len(combined.subtitles) : combined.subtitles[i].index = i

\* C2 (monotonic time): when process_transcription returns, every subtitle
\* starts no earlier than the one before it in the list, also across chunk
\* boundaries (the transcripts of the model are well ordered inside each chunk
\* and the file names carry the chunker's start offsets).
C2_StartTimesNonDecreasing ==
    job_pc = "merged" =>
        \A i \in 1..(Len(combined.subtitles) - 1) :
            TimestampParse(combined.subtitles[i + 1].start_time)
                >= TimestampParse(combined.subtitles[i].start_time)

\* C3: every subtitle of the accumulated timeline stands at its chunk-local
\* start and end time plus the start offset of its own chunk.
C3_EntriesAtChunkStartOffset ==
    job_pc \in {"merging", "merged"} =>
        /\ Len(combined.subtitles) = Len(GlobalCues(pt_pos))
        /\ \A i \in 1..Len(combined.subtitles) :
            /\ TimestampParse(combined.subtitles[i].start_time) = GlobalCues(pt_pos)[i].start
            /\ TimestampParse(combined.subtitles[i].end_time) = GlobalCues(pt_pos)[i].end

\* C4: after each merge step the time watermark combined.end_time is the
\* absolute end time of the chunk merged last: its start offset plus its duration.
C4_EndTimeIsChunkEnd ==
    (job_pc \in {"merging", "merged"} /\ pt_pos >= 1) =>
        combined.end_time = ChunkOfSrt(srt_files[pt_pos]).to

\* C5: after each merge step the index watermark combined.end_index is the
\* highest index carried by any subtitle of the accumulated timeline.
C5_EndIndexIsHighestIndex ==
    (job_pc \in {"merging", "merged"} /\ pt_pos >= 1) =>
        combined.end_index = HighestIndex(combined.subtitles)

----------------------------------------------------------------------------
(* The visiting order of the chunk files, checked under SpecSort *)

\* the sequence number in chunk_{idx}_{start}.*: the digits between "chunk_" and the last "_"
ChunkIndexOf(name) == ParseInt(SubSeq(name, 7, LastIndexOf(Stem(name), 95) - 1))

\* C6: create_transcription and process_transcription visit the files of
\* chunk_audio in ascending sequence number 0, 1, 2, ..., for any number of chunks.
C6_VisitedInSequenceOrder ==
    /\ \A p \in 1..Len(wav_files) : ChunkIndexOf(wav_files[p].name) = p - 1
    /\ \A p \in 1..Len(srt_files) : ChunkIndexOf(srt_files[p].name) = p - 1

----------------------------------------------------------------------------
(* Properties of chunk_audio, checked under SpecChunk *)

\* C7 (chunk coverage): the chunks chunk_audio returns are non-empty intervals,
\* the first starts at 0, each next one starts where the one before ended and
\* the last one ends at the end of the audio.
C7_ChunksCoverAudio ==
    chunk_pc = "returned" =>
        /\ Len(chunks) >= 1
        /\ chunks[1].from = 0
        /\ chunks[Len(chunks)].to = audio_len
        /\ \A i \in 1..Len(chunks) : chunks[i].from < chunks[i].to
        /\ \A i \in 1..(Len(chunks) - 1) : chunks[i + 1].from = chunks[i].to

\* chunk_audio returned three or more chunks and cut one of them at a silence
\* that is not the ideal end
C7_Witness ==
    /\ chunk_pc = "returned"
    /\ Len(chunks) >= 3
    /\ \E i \in 1..(Len(chunks) - 1) :
        /\ chunks[i].to \in silence_midpoints
        /\ chunks[i].to # chunks[i].from + max_duration_ms

\* C8: no chunk that chunk_audio exports is longer than max_duration_ms.
C8_NoChunkLongerThanMax ==
    \A i \in 1..Len(chunks) : chunks[i].to - chunks[i].from <= max_duration_ms

\* C9 (single chunk): for an audio no longer than max_duration_ms chunk_audio
\* returns exactly one chunk, chunk_0_0.wav, holding the whole audio.
C9_ShortAudioIsOneChunk ==
    (chunk_pc = "returned" /\ audio_len <= max_duration_ms) =>
        chunks = <<[name |-> <<99, 104, 117, 110, 107, 95, 48, 95, 48, 46, 119, 97, 118>>,
                    from |-> 0, to |-> audio_len]>>

\* chunk_audio returned for a short audio that contains silences
C9_Witness ==
    /\ chunk_pc = "returned"
    /\ audio_len <= max_duration_ms
    /\ silence_midpoints # {}
    /\ Len(chunks) = 1

----------------------------------------------------------------------------
(* Properties of translate_subtitles, checked under SpecTranslate *)

\* ceil(n / b)
CeilDiv(n, b) == (n + b - 1) \div b

\* C10 (batch completeness): when translate_subtitles returns it has called
\* the translator ceil(N/B) times, call k was asked to translate exactly the
\* entries at the positions [(k-1)B, kB) of the timeline (cut at N), and every
\* entry holds a translation string, possibly the empty one.
C10_BatchesCoverTimeline ==
    tr_pc = "returned" =>
        /\ Len(requests) = CeilDiv(Len(subtitles), batch_size)
        /\ \A k \in 1..Len(requests) :
            LET lo == (k - 1) * batch_size
                hi == IF k * batch_size < Len(subtitles) THEN k * batch_size ELSE Len(subtitles)
            IN  /\ Len(requests[k].texts_to_translate) = hi - lo
                /\ \A j \in 1..(hi - lo) :
                    requests[k].texts_to_translate[j].id = subtitles[lo + j].index
        /\ \A p \in 1..Len(subtitles) : subtitles[p].translation # "<None>"

\* five entries in batches of two: three calls, the last one for one entry;
\* one entry got a text and another one the empty string
C10_Witness ==
    /\ tr_pc = "returned"
    /\ Len(subtitles) = 5
    /\ batch_size = 2
    /\ Len(requests) = 3
    /\ Len(requests[3].texts_to_translate) = 1
    /\ \E p \in 1..5 : subtitles[p].translation = ""
    /\ \E p \in 1..5 : subtitles[p].translation = "t1"

\* C11 (frame of one batch): a step of translate_subtitles changes nothing but
\* the translation of the entries inside the current batch: every entry
\* outside it, the context entries included, is left as it was, and no entry
\* changes its index, times or text.
C11_OnlyBatchTranslationsWritten ==
    [][/\ Len(subtitles') = Len(subtitles)
       /\ \A p \in 1..Len(subtitles) :
            /\ (p <= tr_i \/ p > tr_i + batch_size) => subtitles'[p] = subtitles[p]
            /\ subtitles'[p].index = subtitles[p].index
            /\ subtitles'[p].start_time = subtitles[p].start_time
            /\ subtitles'[p].end_time = subtitles[p].end_time
            /\ subtitles'[p].text = subtitles[p].text]_vars

\* the last batch before the final entry was translated with that entry as
\* context; the translator returned the id the context entry carries too (the
\* batch entry next to it got its text), and the context entry is untouched
C11_Witness ==
    /\ tr_pc = "loop"
    /\ Len(subtitles) >= 3
    /\ tr_i = Len(subtitles) - 1
    /\ overlap >= 1
    /\ Len(requests) >= 1
    /\ Len(requests[Len(requests)].context_after) = 1
    /\ Len(requests[Len(requests)].context_before) >= 1
    /\ requests[Len(requests)].context_after[1].id = subtitles[tr_i].index
    /\ subtitles[tr_i].translation = "t1"
    /\ subtitles[tr_i + 1].translation = "<None>"

----------------------------------------------------------------------------
(* Properties of the /transcribe handler, checked under SpecJob *)

Raised == job_pc = "raised" \/ tr_pc = "raised"

\* the response was built from the whole job: every chunk was transcribed,
\* every transcript merged, every batch translated
WholeTimeline ==
    /\ job_pc = "merged"
    /\ tr_pc = "returned"
    /\ ct_pos = Len(wav_files)
    /\ pt_pos = Len(srt_files)
    /\ \A k \in 1..Len(wav_files) :
            Suffix(wav_files[k].name) = WavSuffix
                => \E j \in 1..Len(srt_files) : srt_files[j].name = Stem(wav_files[k].name) \o SrtSuffix
    /\ Len(subtitles) = Len(combined.subtitles)
    /\ Len(requests) = CeilDiv(Len(subtitles), batch_size)
    /\ \A p \in 1..Len(subtitles) : subtitles[p].translation # None
    /\ Len(response.english_srt) = Len(subtitles)
    /\ Len(response.translated_srt) = Len(subtitles)
    /\ Len(response.bilingual_srt) = Len(subtitles)

\* C12: when a transcription call or a batch translation call fails, the job
\* ends as one error response: a response with documents is only ever built
\* from a timeline that was transcribed, merged and translated in full, a
\* failed job answers with the error status and no document, and after the
\* failure no call is made again (no transcript is written, no request sent,
\* no entry changed)
C12_NoPartialResult ==
    /\ [](response.status = 200 => WholeTimeline)
    /\ [](Raised => response.status # 200)
    /\ [](Raised /\ h_pc = "done" => response = [NoResponse EXCEPT !.status = 500])
    /\ [][Raised => /\ UNCHANGED <<ct_pos, pt_pos, combined, subtitles, tr_i, requests, job_pc, tr_pc>>
                    /\ whisper_dir' \subseteq whisper_dir]_vars

\* a job whose second translation batch failed after the first was written
C12_Witness ==
    /\ h_pc = "done"
    /\ tr_pc = "raised"
    /\ Len(requests) = 2
    /\ Len(subtitles) = 2
    /\ subtitles[1].translation = "t1"
    /\ subtitles[2].translation = None
    /\ response.status = 500

----------------------------------------------------------------------------
(* Properties of the temporary directories, checked under SpecClients *)

\* C13: once a /transcribe handler has finished, after a success or after a
\* failure of any step, its job directory does not exist; a client call that
\* has a result (returned or raised) after creating its temporary directory
\* is in or past its finally block, and the step that finishes the call
\* leaves no temporary directory and no file of it behind
C13_CleanupOnEveryExit ==
    /\ [](\A p \in Procs : s_pc[p] = "done" => s_job[p] \notin server_dirs)
    /\ [](\A p \in Procs : c_result[p] # "none" => c_pc[p] \in {"finally", "done"})
    /\ [][\A p \in Procs :
            (c_pc[p] # "done" /\ c_pc'[p] = "done")
                => /\ c_stem[p] \notin temp_exists'
                   /\ \A f \in temp_files' : f.dir # c_stem[p]]_vars

\* one job failed on the server after its directory was made and its client
\* raised, the other was answered and returned; both have finished
C13_Witness ==
    \E p, q \in Procs :
        /\ c_pc[p] = "done" /\ c_result[p] = "raised"
        /\ s_pc[p] = "done" /\ s_status[p] = 500
        /\ c_pc[q] = "done" /\ c_result[q] = "returned"
        /\ s_pc[q] = "done" /\ s_status[q] = 200
        /\ s_job[p] # s_job[q]

\* C20: while a job is under way, a step of another job neither removes its
\* temporary directory nor removes or replaces a file it wrote there; this
\* holds of the job directories of two requests and of the temporary
\* directories of two client calls, same stem included
C20_TempFilesScoped ==
    [][\A q \in Procs :
        /\ (/\ c_pc[q] \in {"try", "converted", "chunked", "posted"}
            /\ c_pc'[q] = c_pc[q]
            /\ c_stem[q] \in temp_exists)
                => /\ c_stem[q] \in temp_exists'
                   /\ \A f \in temp_files : f.by = q => f \in temp_files'
        /\ (/\ s_pc[q] \in {"saved", "transcribed", "merged", "translated"}
            /\ s_pc'[q] = s_pc[q])
                => s_job[q] \in server_dirs']_vars

----------------------------------------------------------------------------
(* Properties of Timestamp and to_srt_block, checked under SpecTimestamp    *)
(* and SpecRender                                                           *)

\* C14: a string of the form HH:MM:SS,mmm that Timestamp accepts is given
\* back unchanged by str(Timestamp(s))
C14_TimestampRoundTrip ==
    (call_pc = "returned" /\ Len(time) = 12) => time_str = time

TranslationPresent == entry.translation # None /\ entry.translation # ""

BlockHead == <<Digits(entry.index), entry.start_time \o Arrow \o entry.end_time>>

\* C16: the block of an entry is the index line, the "start --> end" line and
\* the content: the text in original mode; the translation if there is one,
\* else the text, in translated mode; the text and on the next line the
\* translation if there is one, else the text alone, in bilingual mode; a
\* translation that is None or "" is no translation
C16_RenderingModes ==
    (call_pc = "returned" /\ entry.index > 0) =>
        /\ SubSeq(block, 1, 2) = BlockHead
        /\ (~use_translation /\ ~is_bilingual) => block = BlockHead \o <<entry.text>>
        /\ (use_translation /\ ~is_bilingual) =>
                block = BlockHead \o <<IF TranslationPresent THEN entry.translation ELSE entry.text>>
        /\ (is_bilingual /\ ~use_translation) =>
                block = BlockHead \o (IF TranslationPresent
                                      THEN <<entry.text, entry.translation>>
                                      ELSE <<entry.text>>)

\* a bilingual block of an entry whose translation is the empty string
C16_Witness ==
    /\ call_pc = "returned"
    /\ is_bilingual
    /\ ~use_translation
    /\ entry.translation = ""
    /\ Len(block) = 3
    /\ block[3] = "cue"

----------------------------------------------------------------------------
(* The merge step, checked under SpecMerge *)

\* C15: a merge step into a non-empty accumulated timeline with the watermark
\* (T, I) = (combined.end_time, combined.end_index) appends the entries of the
\* chunk in their order, each with index = local index + I, start = local
\* start + T and end = local end + T, its text as it was, and leaves the
\* entries that were there unchanged
C15_MergeStepShiftsByWatermark ==
    [][(job_pc = "merging" /\ pt_pos' = pt_pos + 1 /\ Len(combined.subtitles) > 0) =>
        LET local == srt_files[pt_pos + 1].content
            T == combined.end_time
            I == combined.end_index
            old == Len(combined.subtitles)
        IN  /\ Len(combined'.subtitles) = old + Len(local)
            /\ SubSeq(combined'.subtitles, 1, old) = combined.subtitles
            /\ \A k \in 1..Len(local) :
                LET e == combined'.subtitles[old + k]
                IN  /\ e.index = local[k].index + I
                    /\ TimestampParse(e.start_time) = TimestampParse(local[k].start_time) + T
                    /\ TimestampParse(e.end_time) = TimestampParse(local[k].end_time) + T
                    /\ e.text = local[k].text]_vars

\* the third chunk, one cue with local index 1 at local time 0, has been
\* merged into a timeline of two entries with the watermark (20250, 1)
C15_Witness ==
    /\ job_pc = "merging"
    /\ pt_pos = 3
    /\ Len(combined.subtitles) = 3
    /\ Len(srt_files[3].content) = 1
    /\ srt_files[3].content[1].start_time = TimestampStr(0)
    /\ combined.subtitles[3].index = 2
    /\ combined.subtitles[3].start_time = TimestampStr(Ticks(1))
    /\ combined.subtitles[3].end_time = TimestampStr(Ticks(1) + 19750)

----------------------------------------------------------------------------
(* Properties of the loop of chunk_audio, checked under SpecChunk *)

\* the chunks that were cut, not exported by the final branch
CutChunks == IF chunk_pc = "returned" THEN 1..(Len(chunks) - 1) ELSE 1..Len(chunks)

\* the midpoints within max_duration_ms / 5 of ideal_end, both ends included
InWindow(ideal_end) ==
    {s \in silence_midpoints : 5 * Abs(s - ideal_end) <= max_duration_ms}

\* C17: every chunk that was cut at cursor `start` ends at the silence midpoint
\* of the window around ideal_end = start + max_duration_ms that is closest to
\* ideal_end, the earliest of two equally close ones, and exactly at ideal_end
\* when the window holds no midpoint; a midpoint outside the window is never
\* the cut point
C17_CutPointSelection ==
    \A k \in CutChunks :
        LET ideal_end == chunks[k].from + max_duration_ms
            cut_point == chunks[k].to
        IN  IF InWindow(ideal_end) = {}
            THEN cut_point = ideal_end
            ELSE /\ cut_point \in InWindow(ideal_end)
                 /\ \A t \in InWindow(ideal_end) :
                        \/ Abs(cut_point - ideal_end) < Abs(t - ideal_end)
                        \/ Abs(cut_point - ideal_end) = Abs(t - ideal_end) /\ cut_point <= t

\* a cut with two midpoints equally far from ideal_end, on the window's ends
C17_Witness ==
    \E k \in CutChunks :
        LET ideal_end == chunks[k].from + max_duration_ms
        IN  /\ Flexibility(max_duration_ms) = 1
            /\ ideal_end \notin silence_midpoints
            /\ ideal_end - 1 \in silence_midpoints
            /\ ideal_end + 1 \in silence_midpoints
            /\ chunks[k].to = ideal_end - 1

\* C18: with len(audio) > max_duration_ms every cutting iteration moves the
\* cursor forward and keeps it inside the audio, the loop comes to the
\* iteration with start + max_duration_ms >= len(audio) and returns there,
\* the last chunk returned is [start, len(audio)) and the only one exported by
\* that branch, and the chunks are numbered 0, 1, ..., n-1
C18_ChunkAudioTerminates ==
    /\ [][(chunk_pc = "loop" /\ chunk_pc' = "loop") =>
            /\ start' > start
            /\ start' < audio_len
            /\ idx' = idx + 1
            /\ Len(chunks') = Len(chunks) + 1]_vars
    /\ [](chunk_pc = "loop" => start < audio_len /\ idx = Len(chunks))
    /\ []((chunk_pc = "returned" /\ audio_len > max_duration_ms) =>
            /\ Len(chunks) = idx + 1
            /\ chunks[Len(chunks)].from = start
            /\ chunks[Len(chunks)].to = audio_len
            /\ start + max_duration_ms >= audio_len
            /\ \A k \in 1..(Len(chunks) - 1) : chunks[k].from + max_duration_ms < audio_len
            /\ \A k \in 1..Len(chunks) : chunks[k].name = ChunkWavName(k - 1, chunks[k].from))
    /\ <>(chunk_pc = "returned")

\* a run of three iterations has returned
C18_Witness ==
    /\ chunk_pc = "returned"
    /\ audio_len > max_duration_ms
    /\ Len(chunks) = 3
    /\ idx = 2
    /\ chunks[3].to = audio_len
    /\ chunks[2].to = start

----------------------------------------------------------------------------
(* The assignment loop of translate_subtitles, checked under SpecMatch *)

\* the positions of the returned pairs whose id is the given index
PairsFor(index) == {k \in 1..Len(translations) : translations[k].id = index}

\* C19: after the assignment loop every entry of the batch carries the text
\* of the first returned pair whose id is its index, or "" when no pair has
\* that id; nothing else of the timeline changes, so a pair whose id is the
\* index of no batch entry is not used
C19_MatchedById ==
    [][(tr_pc = "parsed" /\ tr_pc' = "assigned") =>
        /\ Len(subtitles') = Len(subtitles)
        /\ \A p \in 1..Len(subtitles) :
            IF tr_i < p /\ p <= tr_i + batch_size
            THEN /\ subtitles'[p] = [subtitles[p] EXCEPT !.translation = subtitles'[p].translation]
                 /\ IF PairsFor(subtitles[p].index) = {}
                    THEN subtitles'[p].translation = ""
                    ELSE \E k \in PairsFor(subtitles[p].index) :
                            /\ \A j \in PairsFor(subtitles[p].index) : k <= j
                            /\ subtitles'[p].translation = translations[k].text
            ELSE subtitles'[p] = subtitles[p]]_vars

\* two pairs share the index of a batch entry, which took the first; the
\* next entry of the batch has no pair and got ""; the entry before the
\* batch kept its translation
C19_Witness ==
    /\ tr_pc = "assigned"
    /\ Len(translations) = 2
    /\ tr_i >= 1
    /\ Len(subtitles) > tr_i + 1
    /\ translations[1].id = subtitles[tr_i + 1].index
    /\ translations[2].id = subtitles[tr_i + 1].index
    /\ subtitles[tr_i + 1].translation = "t1"
    /\ subtitles[tr_i + 2].translation = ""
    /\ subtitles[tr_i].translation = "t1"


====
